---- MODULE Spec2Model ----
(***************************************************************************)
(* Model of the Navidrome registration gateway (src/server.js): the rate   *)
(* limiter in front of POST /api/register, the validation of the request   *)
(* body, the outbound createUser call and the mapping of its outcome to    *)
(* the HTTP response, and GET /api/health.                                 *)
(*                                                                         *)
(* Node runs each handler to its next await without interleaving, so the   *)
(* part of the register handler before `await axios.get` is one action and *)
(* the part after it (including the catch block) is another.               *)
(***************************************************************************)
EXTENDS Integers, Sequences, FiniteSets, Bags

\* ------------------------------------------------------------------ bounds
MaxRequests == 3
MaxBurst == 7
MaxInFlight == 2

\* ------------------------------------------------------- program constants
max == 5

Keys == {"ip1", "ip2"}

\* ------------------------------------------------------------- JS values
\* A value of a JSON body field: undefined (field absent), a string (a
\* sequence of one-character strings) or a number (kept as its decimal text).
Undefined == [t |-> "undefined", s |-> <<>>]
Str(chars) == [t |-> "string", s |-> chars]
Num(digits) == [t |-> "number", s |-> digits]

Rep(c, n) == [i \in 1..n |-> c]

\* !v : undefined, "" and 0 are falsy.
Falsy(v) ==
  \/ v.t = "undefined"
  \/ v.t = "string" /\ v.s = <<>>
  \/ v.t = "number" /\ v.s = <<"0">>

\* String(v), the coercion RegExp.prototype.test and the query-string
\* serialisation apply.
JsString(v) ==
  IF v.t = "undefined"
    THEN <<"u","n","d","e","f","i","n","e","d">>
    ELSE v.s

\* v.length : only a string has one; on a number it is undefined, coded -1.
LengthOf(v) == IF v.t = "string" THEN Len(v.s) ELSE -1

\* a < b where a is v.length: undefined < 8 is false.
LessThan(len, n) == len # -1 /\ len < n

Letters ==
  {"a","b","c","d","e","f","g","h","i","j","k","l","m",
   "n","o","p","q","r","s","t","u","v","w","x","y","z",
   "A","B","C","D","E","F","G","H","I","J","K","L","M",
   "N","O","P","Q","R","S","T","U","V","W","X","Y","Z"}
Digits == {"0","1","2","3","4","5","6","7","8","9"}
Whitespace == {" ", "\n", "\t"}

\* /^[a-zA-Z0-9_-]{3,20}$/.test(v)
UsernameRegexTest(v) ==
  LET s == JsString(v) IN
    /\ Len(s) >= 3
    /\ Len(s) <= 20
    /\ \A i \in 1..Len(s) : s[i] \in Letters \cup Digits \cup {"_", "-"}

\* [^\s@]+ over s[from..to]
NoSpaceNoAt(s, from, to) ==
  /\ from <= to
  /\ \A i \in from..to : s[i] \notin Whitespace \cup {"@"}

\* /^[^\s@]+@[^\s@]+\.[^\s@]+$/.test(v)
EmailRegexTest(v) ==
  LET s == JsString(v) IN
    \E i \in 1..Len(s) : \E j \in 1..Len(s) :
      /\ i < j
      /\ s[i] = "@"
      /\ s[j] = "."
      /\ NoSpaceNoAt(s, 1, i - 1)
      /\ NoSpaceNoAt(s, i + 1, j - 1)
      /\ NoSpaceNoAt(s, j + 1, Len(s))

\* ------------------------------------------------------------ request body
\* req.body after express.json(): the three fields the handler destructures
\* and one more field a client may add (adminRole), which the handler never
\* reads.
Body(u, p, e, x) == [username |-> u, password |-> p, email |-> e, adminRole |-> x]

True == [t |-> "boolean", s |-> <<"t","r","u","e">>]

GoodUsername == Str(<<"b","o","b">>)
GoodPassword == Str(Rep("p", 8))
GoodEmail == Str(<<"a","@","b",".","c">>)

SampleUsernames ==
  { Undefined, Str(<<>>), GoodUsername,
    Str([i \in 1..20 |-> <<"A","_","-","9">>[(i % 4) + 1]]), Str(Rep("a", 21)),
    Str(<<"a","b">>), Str(<<"b","o","b","!">>), Str(<<"b","o","b","\n">>),
    Num(<<"1","2","3">>), Num(<<"0">>) }

SamplePasswords ==
  { Undefined, Str(<<>>), GoodPassword, Str(Rep("p", 7)),
    Num(<<"1","2","3","4","5","6","7">>) }

SampleEmails ==
  { Undefined, Str(<<>>), GoodEmail,
    Str(<<"a","@","b",".","c",".","d">>), Str(<<"a","@","b">>),
    Str(<<"a"," ","b","@","c",".","d">>), Str(<<"a","@","@","b",".","c">>),
    Str(<<"@","b",".","c">>), Str(<<"a","@","b",".">>), Str(<<"a","@",".","c">>) }

\* The bodies requests are drawn from: the well-formed body with one field
\* varied at a time, the empty body, and one body wrong in every field.
Bodies ==
  { Body(u, GoodPassword, GoodEmail, Undefined) : u \in SampleUsernames }
  \cup { Body(GoodUsername, p, GoodEmail, Undefined) : p \in SamplePasswords }
  \cup { Body(GoodUsername, GoodPassword, e, Undefined) : e \in SampleEmails }
  \cup { Body(GoodUsername, GoodPassword, GoodEmail, True),
         Body(Undefined, Undefined, Undefined, Undefined),
         Body(Str(<<"a","b">>), Str(Rep("p", 7)), Str(<<"a","@","b">>), True) }

\* ---------------------------------------------------------------- responses
Response(status, success, text, username) ==
  [status |-> status, success |-> success, text |-> text, username |-> username]

NoResponse == Response(0, FALSE, "", Undefined)

\* registerLimiter's `message`, sent with the limiter's status.
LimitMessage == "Too many registration attempts. Please try again later."
LimitResponse == Response(429, FALSE, LimitMessage, Undefined)

\* express-rate-limit: a request is rejected when the key's hit count, this
\* request included, exceeds max.
Limited_OffByOne(totalHits) == totalHits > max + 1

Limited(totalHits) == totalHits > max

\* ---------------------------------------------------------------- validation
\* The four checks of the handler, in order; "" when the body passes.
ValidationError_NoPasswordCheck(body) ==
  IF Falsy(body.username) \/ Falsy(body.password) \/ Falsy(body.email)
    THEN "Username, password, and email are required"
  ELSE IF ~UsernameRegexTest(body.username)
    THEN "Username must be 3-20 characters (letters, numbers, underscore, hyphen only)"
  ELSE IF ~EmailRegexTest(body.email)
    THEN "Invalid email format"
  ELSE ""

ValidationError(body) ==
  IF Falsy(body.username) \/ Falsy(body.password) \/ Falsy(body.email)
    THEN "Username, password, and email are required"
  ELSE IF ~UsernameRegexTest(body.username)
    THEN "Username must be 3-20 characters (letters, numbers, underscore, hyphen only)"
  ELSE IF LessThan(LengthOf(body.password), 8)
    THEN "Password must be at least 8 characters"
  ELSE IF ~EmailRegexTest(body.email)
    THEN "Invalid email format"
  ELSE ""

\* ------------------------------------------------------------ upstream auth
ADMIN_USER == "admin"
ADMIN_PASSWORD == "admin-password"

\* crypto.randomBytes(16) is a 128-bit CSPRNG draw; draw number n is modelled
\* as the value n, distinct from every other draw.  md5(password + salt) is
\* kept symbolic.
generateSubsonicAuth_Cached(password, draw) ==
  [salt |-> 0, token |-> <<"md5", password, 0>>]

generateSubsonicAuth(password, draw) ==
  [salt |-> draw, token |-> <<"md5", password, draw>>]

\* The role flags of the params object.
Roles ==
  [adminRole |-> FALSE, downloadRole |-> TRUE, uploadRole |-> TRUE,
   playlistRole |-> TRUE, shareRole |-> TRUE, commentRole |-> TRUE,
   podcastRole |-> TRUE, streamRole |-> TRUE, jukeboxRole |-> FALSE,
   settingsRole |-> FALSE, coverArtRole |-> TRUE]

Params_RoleFromBody(body, auth) ==
  [u |-> ADMIN_USER, t |-> auth.token, s |-> auth.salt,
   v |-> "1.16.1", c |-> "NavidromeRegistration", f |-> "json",
   username |-> body.username, password |-> body.password, email |-> body.email,
   roles |-> [Roles EXCEPT !.adminRole = (body.adminRole = True)]]

Params(body, auth) ==
  [u |-> ADMIN_USER, t |-> auth.token, s |-> auth.salt,
   v |-> "1.16.1", c |-> "NavidromeRegistration", f |-> "json",
   username |-> body.username, password |-> body.password, email |-> body.email,
   roles |-> Roles]

\* ---------------------------------------------------------- upstream replies
\* error.message of a Subsonic error object: absent or a string.
NoMessage == [t |-> "undefined", text |-> ""]
Message(x) == [t |-> "string", text |-> x]
Truthy(m) == m.t = "string" /\ m.text # ""

\* ['subsonic-response'].error: absent or an object.
NoError == [present |-> FALSE, message |-> NoMessage]
ErrorObject(m) == [present |-> TRUE, message |-> m]

\* The body of an upstream answer: with or without a 'subsonic-response'.
NoEnvelope == [env |-> FALSE, status |-> "", error |-> NoError]
Envelope(status, error) == [env |-> TRUE, status |-> status, error |-> error]

Envelopes ==
  { Envelope("ok", NoError) }
  \cup { Envelope("failed", e) :
           e \in { NoError, ErrorObject(NoMessage), ErrorObject(Message("")),
                   ErrorObject(Message("Username already exists")) } }

\* What the awaited axios.get can settle with: a 2xx answer (the promise
\* resolves), a non-2xx answer (it rejects with error.response set) or no
\* answer at all (it rejects without error.response).  `created` is whether
\* the upstream created the account while handling the call: an upstream
\* that answers in the Subsonic envelope reports it truthfully; when the
\* answer is lost or is not the envelope, either may have happened.
Replies ==
  { [kind |-> k, data |-> d, created |-> (d.status = "ok")] :
      k \in {"2xx", "non2xx"}, d \in Envelopes }
  \cup { [kind |-> k, data |-> NoEnvelope, created |-> c] :
      k \in {"2xx", "non2xx", "network"}, c \in BOOLEAN }

NoReply == [kind |-> "none", data |-> NoEnvelope, created |-> FALSE]

\* ------------------------------------------------- the handler after await
\* What the try block does once axios.get has settled: a response sent, or an
\* exception thrown into the catch block.  The exception is the axios error
\* (with the answer as error.response, if there was one) or a TypeError from
\* reading a property of undefined.
Sent(res) == [threw |-> FALSE, res |-> res, hasResponse |-> FALSE, data |-> NoEnvelope]
Threw(hasResponse, data) ==
  [threw |-> TRUE, res |-> NoResponse, hasResponse |-> hasResponse, data |-> data]

TryBlock_AnyAnswerIsSuccess(reply, username) ==
  IF reply.kind # "2xx"
    THEN Threw(reply.kind = "non2xx", reply.data)
  ELSE Sent(Response(200, TRUE, "Account created successfully", username))

TryBlock_EchoAdmin(reply, username) ==
  IF reply.kind # "2xx"
    THEN Threw(reply.kind = "non2xx", reply.data)
  ELSE IF ~reply.data.env
    THEN Threw(FALSE, NoEnvelope)
  ELSE IF reply.data.status = "ok"
    THEN Sent(Response(200, TRUE, "Account created successfully",
                       Str(<<"a","d","m","i","n">>)))
  ELSE IF ~reply.data.error.present
    THEN Threw(FALSE, NoEnvelope)
  ELSE Sent(Response(400, FALSE,
                     IF Truthy(reply.data.error.message)
                       THEN reply.data.error.message.text
                       ELSE "Failed to create user",
                     Undefined))

TryBlock(reply, username) ==
  IF reply.kind # "2xx"
    THEN Threw(reply.kind = "non2xx", reply.data)
  ELSE IF ~reply.data.env
    THEN Threw(FALSE, NoEnvelope)
  ELSE IF reply.data.status = "ok"
    THEN Sent(Response(200, TRUE, "Account created successfully", username))
  ELSE IF ~reply.data.error.present
    THEN Threw(FALSE, NoEnvelope)
  ELSE Sent(Response(400, FALSE,
                     IF Truthy(reply.data.error.message)
                       THEN reply.data.error.message.text
                       ELSE "Failed to create user",
                     Undefined))

\* The catch block.
CatchBlock_Always500(err) ==
  Response(500, FALSE, "Internal server error", Undefined)

CatchBlock(err) ==
  IF err.hasResponse /\ err.data.env /\ err.data.error.present
    THEN Response(400, FALSE,
                  IF Truthy(err.data.error.message)
                    THEN err.data.error.message.text
                    ELSE "User creation failed",
                  Undefined)
  ELSE Response(500, FALSE, "Internal server error", Undefined)

\* The response of the handler for a settled call.
Outcome(reply, username) ==
  LET r == TryBlock(reply, username) IN
    IF r.threw THEN CatchBlock(r) ELSE r.res

\* ---------------------------------------------------------------------- state
VARIABLES
  hits,       \* the limiter's store: key -> hits in the key's current window
  inflight,   \* the register requests suspended at `await axios.get` (a bag)
  last,       \* the request that completed most recently
  outbound,   \* every createUser call sent so far: its salt, token and roles
  entropy,    \* number of randomBytes draws so far
  arrived,    \* number of register requests received so far
  seen,       \* key -> requests received in the key's current window
  admitted    \* key -> of those, the ones passed on to the handler

vars == <<hits, inflight, last, outbound, entropy, arrived, seen, admitted>>

NoBody == Body(Undefined, Undefined, Undefined, Undefined)

\* A suspended request: what its closure holds and what it has done so far.
Suspended(body, calls) == [body |-> body, calls |-> calls, responses |-> 0]

\* A completed request.  nth is its position among the requests of its key's
\* window when the limiter or the validation answered it (0 otherwise);
\* concurrent is whether another request was suspended when it was answered.
Completed(kind, body, nth, limited, calls, responses, res, reply) ==
  [kind |-> kind, body |-> body, nth |-> nth, limited |-> limited,
   calls |-> calls, responses |-> responses, res |-> res, reply |-> reply,
   concurrent |-> inflight' # EmptyBag]

Call(params) == [s |-> params.s, t |-> params.t, roles |-> params.roles]

Init ==
  /\ hits = [k \in Keys |-> 0]
  /\ inflight = EmptyBag
  /\ last = [kind |-> "none", body |-> NoBody, nth |-> 0, limited |-> FALSE,
             calls |-> 0, responses |-> 0, res |-> NoResponse, reply |-> NoReply,
             concurrent |-> FALSE]
  /\ outbound = <<>>
  /\ entropy = 0
  /\ arrived = 0
  /\ seen = [k \in Keys |-> 0]
  /\ admitted = [k \in Keys |-> 0]

\* POST /api/register from limiter key k with body `body`, up to the first
\* await: the limiter counts and decides, the handler validates and either
\* answers 400 or sends the createUser call and suspends.
RegisterHandler(k, body) ==
  /\ arrived' = arrived + 1
  /\ hits' = [hits EXCEPT ![k] = @ + 1]
  /\ seen' = [seen EXCEPT ![k] = @ + 1]
  /\ IF Limited(hits'[k])
       THEN /\ UNCHANGED <<inflight, outbound, entropy, admitted>>
            /\ last' = Completed("register", body, seen'[k], TRUE, 0, 1,
                                 LimitResponse, NoReply)
     ELSE IF ValidationError(body) # ""
       THEN /\ UNCHANGED <<inflight, outbound, entropy>>
            /\ admitted' = [admitted EXCEPT ![k] = @ + 1]
            /\ last' = Completed("register", body, seen'[k], FALSE, 0, 1,
                                 Response(400, FALSE, ValidationError(body), Undefined),
                                 NoReply)
     ELSE /\ BagCardinality(inflight) < MaxInFlight
          /\ LET auth == generateSubsonicAuth(ADMIN_PASSWORD, entropy + 1)
                 params == Params(body, auth)
             IN /\ entropy' = entropy + 1
                /\ outbound' = Append(outbound, Call(params))
                /\ inflight' = inflight (+) SetToBag({Suspended(body, 1)})
          /\ admitted' = [admitted EXCEPT ![k] = @ + 1]
          /\ UNCHANGED last

\* The awaited call of the suspended request `req` settles with `reply`: the
\* rest of the try block runs, or the catch block, and the response is sent.
ResumeAfterAwait(req, reply) ==
  /\ BagIn(req, inflight)
  /\ inflight' = inflight (-) SetToBag({req})
  /\ last' = Completed("register", req.body, 0, FALSE,
                       req.calls, req.responses + 1,
                       Outcome(reply, req.body.username), reply)
  /\ UNCHANGED <<hits, outbound, entropy, arrived, seen, admitted>>

\* A handler that answered a failed call by sending the call again.
UpstreamReply_Retry(req, reply) ==
  IF BagIn(req, inflight) /\ reply.kind # "2xx" /\ req.calls < 2
    THEN /\ inflight' = (inflight (-) SetToBag({req}))
                          (+) SetToBag({Suspended(req.body, req.calls + 1)})
         /\ outbound' = Append(outbound, outbound[Len(outbound)])
         /\ UNCHANGED <<hits, last, entropy, arrived, seen, admitted>>
  ELSE ResumeAfterAwait(req, reply)

\* A handler that waited for the upstream without yielding to the event loop.
Register_Blocking(k, body) ==
  /\ inflight = EmptyBag
  /\ RegisterHandler(k, body)

Register(k, body) == RegisterHandler(k, body)

UpstreamReply(req, reply) == ResumeAfterAwait(req, reply)

\* GET /api/health.
HealthResponse == Response(200, TRUE, "Registration service running", Undefined)

Health ==
  /\ UNCHANGED <<hits, inflight, outbound, entropy, arrived, seen, admitted>>
  /\ last' = Completed("health", NoBody, 0, FALSE, 0, 1, HealthResponse, NoReply)

\* windowMs after a key's first hit its window ends and its count is dropped.
WindowExpire(k) ==
  /\ hits[k] > 0
  /\ hits' = [hits EXCEPT ![k] = 0]
  /\ seen' = [seen EXCEPT ![k] = 0]
  /\ admitted' = [admitted EXCEPT ![k] = 0]
  /\ UNCHANGED <<inflight, last, outbound, entropy, arrived>>

\* Requests with every sampled body and every upstream reply, from one client.
OneKey == {"ip1"}

Next ==
  \/ \E k \in OneKey : \E body \in Bodies :
       arrived < MaxRequests /\ Register(k, body)
  \/ \E req \in BagToSet(inflight) : \E reply \in Replies : UpstreamReply(req, reply)
  \/ Health
  \/ \E k \in OneKey : WindowExpire(k)

Spec == Init /\ [][Next]_vars

\* Bursts long enough to exhaust a key's window, with one valid and one
\* invalid body and the two plainest replies.
BurstBodies ==
  { Body(GoodUsername, GoodPassword, GoodEmail, Undefined),
    Body(GoodUsername, Str(Rep("p", 7)), GoodEmail, Undefined) }

BurstReplies ==
  { [kind |-> "2xx", data |-> Envelope("ok", NoError), created |-> TRUE],
    [kind |-> "network", data |-> NoEnvelope, created |-> FALSE] }

BurstNext ==
  \/ \E k \in Keys : \E body \in BurstBodies :
       arrived < MaxBurst /\ Register(k, body)
  \/ \E req \in BagToSet(inflight) : \E reply \in BurstReplies : UpstreamReply(req, reply)
  \/ Health
  \/ \E k \in Keys : WindowExpire(k)

BurstSpec == Init /\ [][BurstNext]_vars

\* --------------------------------------------------------------- properties
IsRegister == last.kind = "register"

\* The text of a field as it goes on the wire, and the validation rules as
\* the specification words them.
Missing(v) == v.t = "undefined" \/ JsString(v) = <<>>

UsernameShape(s) ==
  /\ Len(s) \in 3..20
  /\ \A i \in 1..Len(s) : s[i] \in Letters \cup Digits \cup {"_", "-"}

\* local@domain.tld: one "@", no whitespace, a non-empty local part, and a
\* domain with a "." that has something on both sides.
EmailShape(s) ==
  /\ Cardinality({i \in 1..Len(s) : s[i] = "@"}) = 1
  /\ \A i \in 1..Len(s) : s[i] \notin Whitespace
  /\ \E i \in 2..Len(s) :
       /\ s[i] = "@"
       /\ \E j \in (i + 2)..(Len(s) - 1) : s[j] = "."

FailsValidation(body) ==
  \/ Missing(body.username) \/ Missing(body.password) \/ Missing(body.email)
  \/ ~UsernameShape(JsString(body.username))
  \/ Len(JsString(body.password)) < 8
  \/ ~EmailShape(JsString(body.email))

StringFields(body) ==
  /\ body.username.t \in {"string", "undefined"}
  /\ body.password.t \in {"string", "undefined"}
  /\ body.email.t \in {"string", "undefined"}

Rejected400NoCall(body) ==
  /\ \A req \in BagToSet(inflight) : req.body # body
  /\ IsRegister /\ ~last.limited /\ last.body = body =>
       /\ last.res.status = 400
       /\ ~last.res.success
       /\ last.calls = 0
       /\ last.reply = NoReply

\* C1: every admitted register request whose body fails a validation rule
\* (a missing or empty field, a username outside ^[A-Za-z0-9_-]{3,20}$, a
\* password shorter than 8, an email not shaped local@domain.tld) is answered
\* 400 with success=false and causes no createUser call.
C1_InvalidBodyRejected ==
  \A body \in Bodies : FailsValidation(body) => Rejected400NoCall(body)

\* C1, bodies whose three fields are strings or absent: the same statement,
\* which holds.
C1_InvalidStringBodyRejected ==
  \A body \in Bodies :
    StringFields(body) /\ FailsValidation(body) => Rejected400NoCall(body)

C1_StringWitness ==
  /\ IsRegister /\ ~last.limited
  /\ last.body.password = Str(Rep("p", 7))
  /\ last.res.status = 400

ReportedOk(reply) == reply.kind = "2xx" /\ reply.data.env /\ reply.data.status = "ok"

\* C2: when the createUser call of an admitted, valid request returns a body
\* whose subsonic-response status is 'ok', the answer is 200 with success=true
\* and the username of the request.
C2_OkEchoesUsername ==
  IsRegister /\ ReportedOk(last.reply) =>
    /\ last.res.status = 200
    /\ last.res.success
    /\ last.res.username = last.body.username

C2_Witness ==
  /\ IsRegister /\ ReportedOk(last.reply)
  /\ last.body.username = Num(<<"1","2","3">>)
  /\ last.res.status = 200

ReportedFailure(reply) ==
  reply.kind = "2xx" /\ reply.data.env /\ reply.data.status # "ok"

\* C3: when the transport succeeds and the upstream reports a non-ok status,
\* the answer is 400 with success=false and the upstream's message if it gave
\* one, else 'Failed to create user' (also when the failed response has no
\* error object, or an error object without a message).
C3_FailureIs400 ==
  IsRegister /\ ReportedFailure(last.reply) =>
    /\ last.res.status = 400
    /\ ~last.res.success
    /\ last.res.text =
         IF last.reply.data.error.present /\ Truthy(last.reply.data.error.message)
           THEN last.reply.data.error.message.text
           ELSE "Failed to create user"

\* C3, failed responses that carry an error object: the same statement, which
\* holds.
C3_FailureWithErrorObjectIs400 ==
  IsRegister /\ ReportedFailure(last.reply) /\ last.reply.data.error.present =>
    /\ last.res.status = 400
    /\ ~last.res.success
    /\ last.res.text =
         IF Truthy(last.reply.data.error.message)
           THEN last.reply.data.error.message.text
           ELSE "Failed to create user"

\* A call that failed at the transport level: no answer, a non-2xx answer, or
\* a 2xx answer whose body is not the Subsonic envelope.
TransportFailed(reply) ==
  \/ reply.kind \in {"network", "non2xx"}
  \/ reply.kind = "2xx" /\ ~reply.data.env

EmbeddedError(reply) ==
  reply.kind = "non2xx" /\ reply.data.env /\ reply.data.error.present

Generic500 ==
  /\ last.res.status = 500
  /\ ~last.res.success
  /\ last.res.text = "Internal server error"

\* C4 as claimed: after a transport-level failure the answer is 400 with the
\* message of the embedded upstream error object if there is one, and else
\* 500 with the fixed generic text; a 500 never carries anything else.
C4_TransportFailure ==
  /\ IsRegister /\ TransportFailed(last.reply) =>
       IF EmbeddedError(last.reply)
         THEN /\ last.res.status = 400
              /\ last.reply.data.error.message.t = "string"
              /\ last.res.text = last.reply.data.error.message.text
         ELSE Generic500
  /\ last.res.status = 500 => Generic500

\* C4 amended: after a transport-level failure the answer is 400 with the
\* message of the embedded upstream error object when it has a non-empty one
\* and with 'User creation failed' when it has none, and without an embedded
\* error object it is 500 with the fixed generic text; a 500 never carries
\* anything else.
C4_TransportFailureAmended ==
  /\ IsRegister /\ TransportFailed(last.reply) =>
       IF EmbeddedError(last.reply)
         THEN /\ last.res.status = 400
              /\ ~last.res.success
              /\ last.res.text =
                   IF Truthy(last.reply.data.error.message)
                     THEN last.reply.data.error.message.text
                     ELSE "User creation failed"
         ELSE Generic500
  /\ last.res.status = 500 => Generic500

C4_Witness ==
  /\ IsRegister
  /\ last.reply.kind = "non2xx"
  /\ last.reply.data.error = ErrorObject(NoMessage)
  /\ last.res.text = "User creation failed"

\* C5: per limiter key and window at most 5 register requests reach the
\* validator; the 6th and every later one gets the limiter's payload and
\* causes no createUser call, whatever its body and whatever the earlier
\* bodies were; a request that is among the first 5 of its own key's window
\* is not rejected, whatever the other keys' counts.
C5_FivePerWindow ==
  /\ \A k \in Keys : admitted[k] <= 5
  /\ Len(outbound) <= arrived
  /\ IsRegister /\ last.nth > 5 =>
       /\ last.limited
       /\ last.res.text = LimitMessage
       /\ ~last.res.success
       /\ last.calls = 0
       /\ last.reply = NoReply
  /\ IsRegister /\ last.nth \in 1..5 => ~last.limited

C5_Witness ==
  /\ IsRegister /\ last.limited /\ last.nth = 6
  /\ ValidationError(last.body) = ""
  /\ \E k \in Keys : seen[k] \in 1..5

ExpectedRoles ==
  [adminRole |-> FALSE, jukeboxRole |-> FALSE, settingsRole |-> FALSE,
   downloadRole |-> TRUE, uploadRole |-> TRUE, playlistRole |-> TRUE,
   shareRole |-> TRUE, commentRole |-> TRUE, podcastRole |-> TRUE,
   streamRole |-> TRUE, coverArtRole |-> TRUE]

\* C6: every createUser call carries the same fixed role flags (admin,
\* jukebox, settings denied; the rest allowed) whatever the request body
\* holds, so any two calls have identical flags and adminRole is never true.
C6_FixedRoles ==
  /\ \A i \in 1..Len(outbound) :
       outbound[i].roles = ExpectedRoles /\ ~outbound[i].roles.adminRole
  /\ \A i, j \in 1..Len(outbound) : outbound[i].roles = outbound[j].roles

C6_Witness ==
  /\ Len(outbound) >= 2
  /\ \E a, b \in BagToSet(inflight) :
       a.body.adminRole = True /\ b.body.adminRole = Undefined

\* C7: a fresh salt/token pair is generated for every createUser call: no two
\* calls, concurrent or not, share a pair, and none is reused from an earlier
\* call.
C7_FreshSaltPerCall ==
  \A i, j \in 1..Len(outbound) :
    i # j => /\ outbound[i].s # outbound[j].s
             /\ <<outbound[i].s, outbound[i].t>> # <<outbound[j].s, outbound[j].t>>

C7_Witness ==
  /\ Len(outbound) >= 3
  /\ \E a, b \in BagToSet(inflight) : a.body.username # b.body.username

\* C8 as claimed: once a register request is answered, an account was created
\* by it exactly when the caller was told success; a 400 or 500 means no
\* account was created.
C8_AccountIffSuccess ==
  IsRegister => (last.reply.created <=> last.res.success)

\* C8 amended: the caller is told success exactly when the createUser call
\* returned 2xx with status ok, and then the account was created; a request
\* answered without a createUser call (rate limit, validation) created none.
\* A 400 or 500 sent after the call says nothing about the account.
C8_SuccessMeansCreated ==
  IsRegister =>
    /\ last.res.success <=> ReportedOk(last.reply)
    /\ last.res.success => last.reply.created
    /\ last.calls = 0 => ~last.reply.created

C8_Witness ==
  /\ IsRegister /\ last.calls = 1
  /\ last.res.status = 500
  /\ last.reply.created

\* C9: a register request issues at most one createUser call and gets exactly
\* one response: after an upstream error, a transport error or a malformed
\* body the handler answers without a second call, and nothing answers twice.
C9_OneCallOneResponse ==
  /\ IsRegister => last.calls <= 1 /\ last.responses = 1
  /\ \A req \in BagToSet(inflight) : req.calls = 1 /\ req.responses = 0
  /\ Len(outbound) <= arrived

C9_Witness ==
  /\ IsRegister /\ last.reply.kind = "network"
  /\ last.calls = 1 /\ last.responses = 1

\* C10: while a register request is suspended on its createUser call, other
\* requests are still served: GET /api/health and a register request from any
\* key can be taken and answered, and any other suspended request can resume,
\* however long the first call takes.
C10_OthersProceed ==
  inflight # EmptyBag =>
    /\ ENABLED Health
    /\ \A k \in Keys : \A body \in BurstBodies :
         (ValidationError(body) # "" \/ BagCardinality(inflight) < MaxInFlight)
           => ENABLED Register(k, body)
    /\ \A req \in BagToSet(inflight) : \A reply \in BurstReplies :
         ENABLED UpstreamReply(req, reply)

C10_Witness ==
  /\ inflight # EmptyBag
  /\ IsRegister /\ last.concurrent /\ last.calls = 1
  /\ last.res.status = 200

====
